---- MODULE Spec2Model ----
(***************************************************************************)
(* State-machine model of the ASL recognizer's model selectors             *)
(* (my_model_selectors.py: SelectorConstant, SelectorBIC, SelectorDIC,     *)
(* SelectorCV) and of recognize (my_recognizer.py).                        *)
(*                                                                         *)
(* One behaviour is one call: of recognize, or of one strategy's select.   *)
(* The external collaborators (GaussianHMM.fit, model.score) are the       *)
(* environment: every call nondeterministically fails or, for score,       *)
(* returns a log-likelihood from ScoreVals.  What the environment answered *)
(* is recorded in the history variables hist and calls, which no program   *)
(* step reads.                                                             *)
(*                                                                         *)
(* Numbers: log-likelihoods are integers; BIC is kept in thousandths       *)
(* (ln N is the table LnTable, in thousandths); the DIC and the CV average *)
(* are exact fractions [num, den] compared by cross-multiplication.        *)
(***************************************************************************)
EXTENDS Integers, Sequences, FiniteSets, TLC

\* ------------------------------------------------------------- bounds
MaxT == 2        \* test sequences of a recognition run: 0..MaxT
MaxW == 2        \* entries of the models mapping: 0..MaxW
MaxN == 3        \* largest max_n_components
MaxSeq == 4      \* sequences of this_word: 0..MaxSeq
MaxLen == 1      \* frames of one sequence: 1..MaxLen
MaxWords == 2    \* words of the vocabulary (hwords): 1..MaxWords
MaxD == 1        \* feature dimension: 1..MaxD

\* ------------------------------------------------- program constants
DefaultMinN == 2         \* min_n_components=2
DefaultNConstant == 3    \* n_constant=3
MaxSplits == 3           \* KFold(n_splits=min(len(self.sequences), 3))
NoWord == 0              \* guess = None (words are 1..numModels)
NegInf == -1000000       \* float("-inf")
PosInf == 1000000        \* float("inf")

\* log-likelihoods a successful score call may return
ScoreVals == {-5, -1}

\* what one call of the environment answered: failure, or a value
Outcomes == {[ok |-> FALSE, v |-> 0]} \cup {[ok |-> TRUE, v |-> x] : x \in ScoreVals}

Programs == {"recognize", "Constant", "BIC", "DIC", "CV"}

\* ------------------------------------------------------------ helpers
RECURSIVE SumSeq(_)
SumSeq(s) == IF s = <<>> THEN 0 ELSE Head(s) + SumSeq(Tail(s))

Min2(a, b) == IF a < b THEN a ELSE b

\* 1000 * ln(i), rounded, for i = 1..16
LnTable == <<0, 693, 1099, 1386, 1609, 1792, 1946, 2079,
             2197, 2303, 2398, 2485, 2565, 2639, 2708, 2773>>

\* math.log raises ValueError off its domain
MathLogDefined(x) == x >= 1 /\ x <= Len(LnTable)
MathLog(x) == LnTable[x]

\* all sequences over 1..MaxLen of length 0..MaxSeq
LengthsSet == UNION {[1..k -> 1..MaxLen] : k \in 0..MaxSeq}
\* sequence lists of 0, 1, 2 and MaxSeq one-frame sequences: no sequence, the
\* one-sequence path, fewer sequences than MaxSplits, and more
UnitLengths == {[i \in 1..k |-> 1] : k \in {0, 1, 2, MaxSeq}}

\* ---------------------------------------------------------- the state
VARIABLES
  prog,               \* which call this behaviour is
  pc,                 \* position in the call; "done" = returned, "raised" = exception escaped
  \* recognize
  numTest,            \* len(test_set.get_all_Xlengths())
  numModels,          \* len(models); words are 1..numModels in iteration order
  seqIdx,             \* test sequences started so far
  wordIdx,            \* words of the current row handled so far
  probability,        \* the current row, <<value of word 1, value of word 2, ...>>
  select_logL,
  guess,
  logL,               \* the local logL of recognize
  logLBound,          \* whether logL has been assigned yet
  probabilities,
  guesses,
  calls,              \* history: per row, the outcome of each score call
  \* ModelSelector.__init__
  min_n_components,
  max_n_components,
  n_constant,
  lengths,            \* self.lengths; len(self.sequences) = Len(lengths)
  n_features,         \* model.n_features
  numWords,           \* len(self.hwords)
  \* select
  n_components,
  model,              \* the local model of select
  select_model,
  select_bic,
  select_dic,
  select_avg_logL,
  logsL,
  fold,               \* folds of the current n handled so far
  hist                \* history: per n tried, what the fits and scores answered

recVars == <<numTest, numModels, seqIdx, wordIdx, probability, select_logL, guess,
             logL, logLBound, probabilities, guesses, calls>>
cfgVars == <<prog, min_n_components, max_n_components, n_constant, lengths,
             n_features, numWords>>
selVars == <<n_components, model, select_model, select_bic, select_dic,
             select_avg_logL, logsL, fold, hist>>
vars == <<pc, recVars, cfgVars, selVars>>

numSeq == Len(lengths)

\* a fitted model: its state count, the fold it was fitted in (0: base_model, on
\* self.X) and the sequences it was fitted on
NoModel == [n |-> 0, fold |-> 0, train |-> {}]
NegInfFrac == [num |-> NegInf, den |-> 1]

\* an entry of hist that has no answers yet
NoEval(n) == [n |-> n, fit |-> FALSE, self |-> [ok |-> FALSE, v |-> 0],
              others |-> <<>>, folds |-> <<>>]

Init ==
  /\ prog \in Programs
  /\ pc = IF prog = "recognize" THEN "rec_outer"
          ELSE IF prog = "Constant" THEN "constant" ELSE "loop"
  /\ numTest \in (IF prog = "recognize" THEN 0..MaxT ELSE {0})
  /\ numModels \in (IF prog = "recognize" THEN 0..MaxW ELSE {0})
  /\ seqIdx = 0
  /\ wordIdx = 0
  /\ probability = <<>>
  /\ select_logL = NegInf
  /\ guess = NoWord
  /\ logL = 0
  /\ logLBound = FALSE
  /\ probabilities = <<>>
  /\ guesses = <<>>
  /\ calls = <<>>
  /\ min_n_components \in (IF prog \in {"BIC", "DIC", "CV"} THEN DefaultMinN..MaxN
                           ELSE {DefaultMinN})
  /\ max_n_components \in (IF prog \in {"BIC", "DIC", "CV"} THEN (DefaultMinN - 1)..MaxN
                           ELSE {MaxN})
  /\ n_constant \in (IF prog = "Constant" THEN 1..(MaxN + 1) ELSE {DefaultNConstant})
  /\ lengths \in (IF prog = "BIC" THEN LengthsSet
                  ELSE IF prog = "CV" THEN UnitLengths ELSE {<<1>>})
  /\ n_features \in (IF prog = "BIC" THEN 1..MaxD ELSE {1})
  /\ numWords \in (IF prog = "DIC" THEN 1..MaxWords ELSE {1})
  /\ n_components = min_n_components
  /\ model = NoModel
  /\ select_model = NoModel
  /\ select_bic = PosInf
  /\ select_dic = NegInfFrac
  /\ select_avg_logL = NegInfFrac
  /\ logsL = <<>>
  /\ fold = 0
  /\ hist = <<>>

\* ---------------------------------------------------------- recognize
\* for (X, lengths) in test_set.get_all_Xlengths().values(): the three resets
RecNextRow ==
  /\ prog = "recognize" /\ pc = "rec_outer" /\ seqIdx < numTest
  /\ seqIdx' = seqIdx + 1
  /\ wordIdx' = 0
  /\ probability' = <<>>
  /\ select_logL' = NegInf
  /\ guess' = NoWord
  /\ calls' = Append(calls, <<>>)
  /\ pc' = "rec_inner"
  /\ UNCHANGED <<numTest, numModels, logL, logLBound, probabilities, guesses,
                 cfgVars, selVars>>

\* the value the try block leaves in probability[word]
RowEntry(o) == IF o.ok THEN o.v ELSE NegInf

\* if logL > select_logL
RecBetter(l, sel) == l > sel

\* one (word, model) pair: the try block, then the comparison after it
RecScore(o) ==
  /\ prog = "recognize" /\ pc = "rec_inner" /\ wordIdx < numModels
  /\ wordIdx' = wordIdx + 1
  /\ probability' = Append(probability, RowEntry(o))
  /\ calls' = [calls EXCEPT ![seqIdx] = Append(@, o)]
  /\ logL' = IF o.ok THEN o.v ELSE logL
  /\ logLBound' = (logLBound \/ o.ok)
  /\ IF ~logLBound'
       THEN \* logL is read before any assignment: UnboundLocalError, outside the try
            /\ pc' = "raised"
            /\ UNCHANGED <<select_logL, guess>>
       ELSE /\ pc' = pc
            /\ IF RecBetter(logL', select_logL)
                 THEN select_logL' = logL' /\ guess' = wordIdx'
                 ELSE UNCHANGED <<select_logL, guess>>
  /\ UNCHANGED <<numTest, numModels, seqIdx, probabilities, guesses, cfgVars, selVars>>

\* probabilities.append(probability); guesses.append(guess)
RecAppend ==
  /\ prog = "recognize" /\ pc = "rec_inner" /\ wordIdx = numModels
  /\ probabilities' = Append(probabilities, probability)
  /\ guesses' = Append(guesses, guess)
  /\ pc' = "rec_outer"
  /\ UNCHANGED <<numTest, numModels, seqIdx, wordIdx, probability, select_logL, guess,
                 logL, logLBound, calls, cfgVars, selVars>>

\* return probabilities, guesses
RecReturn ==
  /\ prog = "recognize" /\ pc = "rec_outer" /\ seqIdx = numTest
  /\ pc' = "done"
  /\ UNCHANGED <<recVars, cfgVars, selVars>>

\* ------------------------------------------------------- the selectors
\* GaussianHMM(...).fit(self.X, self.lengths) rejects an empty observation array
FitAnswers(fitOK) == fitOK => SumSeq(lengths) >= 1

\* base_model: the fitted model, or None when the fit raises
base_model(num_states, fitOK) ==
  IF fitOK THEN [n |-> num_states, fold |-> 0, train |-> 1..numSeq] ELSE NoModel

\* range(self.min_n_components, self.max_n_components + 1)
CandidateRangeLong(lo, hi) == lo..(hi + 1)
CandidateRange(lo, hi) == lo..hi

\* SelectorConstant.select
ConstantSelect(fitOK) ==
  /\ prog = "Constant" /\ pc = "constant"
  /\ FitAnswers(fitOK)
  /\ model' = base_model(n_constant, fitOK)
  /\ select_model' = model'
  /\ hist' = <<[NoEval(n_constant) EXCEPT !.fit = fitOK]>>
  /\ pc' = "done"
  /\ UNCHANGED <<recVars, cfgVars, n_components, select_bic, select_dic,
                 select_avg_logL, logsL, fold>>

\* p = n_components**2 + 2*n_components * model.n_features - 1
FreeParams(n, d) == n * n + 2 * n * d - 1

\* bic = - 2 * logL + p * logN, in thousandths
BicValue(l, p, logN) == -2 * 1000 * l + p * logN

\* if bic < select_bic
BicBetterOrEqual(bic, sel) == bic <= sel
BicBetter(bic, sel) == bic < sel

\* SelectorBIC.select: one iteration of the loop
BICIter(fitOK, o) ==
  /\ prog = "BIC" /\ pc = "loop"
  /\ n_components \in CandidateRange(min_n_components, max_n_components)
  /\ FitAnswers(fitOK)
  /\ (~fitOK => ~o.ok)   \* None has no score: AttributeError
  /\ model' = base_model(n_components, fitOK)
  /\ hist' = Append(hist, [NoEval(n_components) EXCEPT !.fit = fitOK, !.self = o])
  /\ IF fitOK /\ o.ok /\ MathLogDefined(SumSeq(lengths))
       THEN LET bic == BicValue(o.v, FreeParams(n_components, n_features),
                                MathLog(SumSeq(lengths)))
            IN IF BicBetter(bic, select_bic)
                 THEN select_bic' = bic /\ select_model' = model'
                 ELSE UNCHANGED <<select_bic, select_model>>
       ELSE \* except: continue
            UNCHANGED <<select_bic, select_model>>
  /\ n_components' = n_components + 1
  /\ UNCHANGED <<pc, recVars, cfgVars, select_dic, select_avg_logL, logsL, fold>>

\* a > b on fractions with positive denominators; NegInfFrac is below every value
FracGT(a, b) ==
  IF b.num = NegInf THEN a.num # NegInf
  ELSE a.num # NegInf /\ a.num * b.den > b.num * a.den

\* the score calls of one DIC iteration that are made: the own-word score only after
\* a successful fit, the other words' scores in order up to the first failure
DICAnswers(fitOK, o, oth) ==
  /\ (~fitOK => ~o.ok)
  /\ Len(oth) <= numWords - 1
  /\ (~o.ok => oth = <<>>)
  /\ \A i \in 1..(Len(oth) - 1) : oth[i].ok
  /\ (o.ok /\ Len(oth) < numWords - 1 => Len(oth) >= 1 /\ ~oth[Len(oth)].ok)

OutcomeSeqs(maxLen) == UNION {[1..k -> Outcomes] : k \in 0..maxLen}

Values(oth) == [i \in 1..Len(oth) |-> oth[i].v]

\* dic = logL - sum(anti_logsL)/len(other_words), as the fraction over len(other_words)
DicValueOverM(l, anti, k) == [num |-> l * (k + 1) - SumSeq(anti), den |-> k + 1]
DicValue(l, anti, k) == [num |-> l * k - SumSeq(anti), den |-> k]

\* if dic > select_dic
DicBetter(dic, sel) == FracGT(dic, sel)

\* SelectorDIC.select: one iteration of the loop
DICIter(fitOK, o, oth) ==
  /\ prog = "DIC" /\ pc = "loop"
  /\ n_components \in CandidateRange(min_n_components, max_n_components)
  /\ FitAnswers(fitOK)
  /\ DICAnswers(fitOK, o, oth)
  /\ model' = base_model(n_components, fitOK)
  /\ hist' = Append(hist, [NoEval(n_components) EXCEPT !.fit = fitOK, !.self = o,
                                                       !.others = oth])
  /\ LET allScored == fitOK /\ o.ok /\ Len(oth) = numWords - 1
                      /\ \A i \in 1..Len(oth) : oth[i].ok
         dic == DicValue(o.v, Values(oth), numWords - 1)
     IN IF allScored /\ dic.den # 0   \* a zero divisor raises ZeroDivisionError
          THEN IF DicBetter(dic, select_dic)
                 THEN select_dic' = dic /\ select_model' = model'
                 ELSE UNCHANGED <<select_dic, select_model>>
          ELSE \* except: continue
               UNCHANGED <<select_dic, select_model>>
  /\ n_components' = n_components + 1
  /\ UNCHANGED <<pc, recVars, cfgVars, select_bic, select_avg_logL, logsL, fold>>

\* KFold(n_splits=min(len(self.sequences), 3))
NSplitsFixed(k) == MaxSplits
NSplits(k) == Min2(k, MaxSplits)

\* KFold.split without shuffling: contiguous blocks, the first k % s of them one longer
FoldSize(k, s, i) == (k \div s) + (IF i <= k % s THEN 1 ELSE 0)
FoldStart(k, s, i) == (i - 1) * (k \div s) + Min2(i - 1, k % s)
KFoldTest(k, s, i) == (FoldStart(k, s, i) + 1)..(FoldStart(k, s, i) + FoldSize(k, s, i))
KFoldTrain(k, s, i) == (1..k) \ KFoldTest(k, s, i)

\* the head of the loop over n: logsL = [], then the choice of path and the splitter
CVBegin ==
  /\ prog = "CV" /\ pc = "loop"
  /\ n_components \in CandidateRange(min_n_components, max_n_components)
  /\ logsL' = <<>>
  /\ fold' = 0
  /\ hist' = Append(hist, NoEval(n_components))
  /\ pc' = IF numSeq = 1 THEN "cv_single"
           ELSE IF NSplits(numSeq) <= 1
                  THEN "raised"   \* KFold rejects n_splits <= 1 with ValueError, outside any try
                  ELSE "cv_fold"
  /\ UNCHANGED <<recVars, cfgVars, n_components, model, select_model, select_bic,
                 select_dic, select_avg_logL>>

\* the word has one sequence: fit and score on self.X
CVSingle(fitOK, o) ==
  /\ prog = "CV" /\ pc = "cv_single"
  /\ FitAnswers(fitOK)
  /\ (~fitOK => ~o.ok)
  /\ model' = base_model(n_components, fitOK)
  /\ hist' = [hist EXCEPT ![Len(hist)].fit = fitOK, ![Len(hist)].self = o]
  /\ IF fitOK /\ o.ok
       THEN /\ logsL' = Append(logsL, o.v)
            /\ pc' = "cv_end"
            /\ UNCHANGED n_components
       ELSE \* except: continue
            /\ pc' = "loop"
            /\ n_components' = n_components + 1
            /\ UNCHANGED logsL
  /\ UNCHANGED <<recVars, cfgVars, select_model, select_bic, select_dic,
                 select_avg_logL, fold>>

\* the local model after a fold: assigned when the fit returns, before the score
FoldModelIfScored(old, new, fitOK, scoreOK) == IF fitOK /\ scoreOK THEN new ELSE old
FoldModel(old, new, fitOK, scoreOK) == IF fitOK THEN new ELSE old

\* one fold: fit on the training sequences, score on the held-out ones
CVFold(fitOK, o) ==
  /\ prog = "CV" /\ pc = "cv_fold"
  /\ fold < NSplits(numSeq)
  /\ (~fitOK => ~o.ok)
  /\ LET i == fold + 1
         test == KFoldTest(numSeq, NSplits(numSeq), i)
         train == KFoldTrain(numSeq, NSplits(numSeq), i)
         fitted == [n |-> n_components, fold |-> i, train |-> train]
     IN /\ fold' = i
        /\ model' = FoldModel(model, fitted, fitOK, o.ok)
        /\ logsL' = IF fitOK /\ o.ok THEN Append(logsL, o.v) ELSE logsL
        /\ hist' = [hist EXCEPT ![Len(hist)].folds =
                      Append(@, [fit |-> fitOK, score |-> o, test |-> test, train |-> train])]
        /\ pc' = IF i = NSplits(numSeq) THEN "cv_end" ELSE "cv_fold"
  /\ UNCHANGED <<recVars, cfgVars, n_components, select_model, select_bic, select_dic,
                 select_avg_logL>>

\* np.mean(logsL), as the fraction sum/len
CVMean(s) == [num |-> SumSeq(s), den |-> Len(s)]

\* if avg_logL > select_avg_logL
AvgBetterOrEqual(avg, sel) == ~FracGT(sel, avg)
AvgBetter(avg, sel) == FracGT(avg, sel)

\* the tail of the loop over n: skip an n without samples, else average and compare
CVEnd ==
  /\ prog = "CV" /\ pc = "cv_end"
  /\ IF logsL = <<>>
       THEN UNCHANGED <<select_avg_logL, select_model>>
       ELSE LET avg_logL == CVMean(logsL)
            IN IF AvgBetter(avg_logL, select_avg_logL)
                 THEN select_avg_logL' = avg_logL /\ select_model' = model
                 ELSE UNCHANGED <<select_avg_logL, select_model>>
  /\ n_components' = n_components + 1
  /\ pc' = "loop"
  /\ UNCHANGED <<recVars, cfgVars, model, select_bic, select_dic, logsL, fold, hist>>

\* return select_model, once the range is exhausted
SelectReturn ==
  /\ prog \in {"BIC", "DIC", "CV"} /\ pc = "loop"
  /\ n_components \notin CandidateRange(min_n_components, max_n_components)
  /\ pc' = "done"
  /\ UNCHANGED <<recVars, cfgVars, selVars>>

Next ==
  \/ RecNextRow
  \/ \E o \in Outcomes : RecScore(o)
  \/ RecAppend
  \/ RecReturn
  \/ \E fitOK \in BOOLEAN : ConstantSelect(fitOK)
  \/ \E fitOK \in BOOLEAN, o \in Outcomes : BICIter(fitOK, o)
  \/ \E fitOK \in BOOLEAN, o \in Outcomes, oth \in OutcomeSeqs(numWords - 1) :
       DICIter(fitOK, o, oth)
  \/ CVBegin
  \/ \E fitOK \in BOOLEAN, o \in Outcomes : CVSingle(fitOK, o)
  \/ \E fitOK \in BOOLEAN, o \in Outcomes : CVFold(fitOK, o)
  \/ CVEnd
  \/ SelectReturn

Spec == Init /\ [][Next]_vars

\* ============================================================ claims
Strategies == {"Constant", "BIC", "DIC", "CV"}

\* the model base_model fits with n states on the word's full observations
FullModel(n) == [n |-> n, fold |-> 0, train |-> 1..numSeq]

\* the n tried so far, in order
TriedN == [i \in 1..Len(hist) |-> hist[i].n]
WholeRange ==
  [i \in 1..(IF max_n_components >= min_n_components
             THEN max_n_components - min_n_components + 1 ELSE 0)
     |-> min_n_components + i - 1]

\* ---------------------------------------------------------------- C1
C1_AllFailed(row) == \A w \in 1..Len(row) : row[w] = NegInf
C1_FirstMax(row) ==
  CHOOSE w \in 1..Len(row) :
    /\ \A u \in 1..Len(row) : row[u] <= row[w]
    /\ \A u \in 1..(w - 1) : row[u] < row[w]
C1_Expected(row) == IF C1_AllFailed(row) THEN NoWord ELSE C1_FirstMax(row)

\* C1: in every row recognize has appended, the guess is the first word holding the
\* row's maximum, and the entry of every word whose score call failed is -infinity.
C1_GuessIsRowMax ==
  prog = "recognize" =>
    \A t \in 1..Len(guesses) :
      /\ guesses[t] = C1_Expected(probabilities[t])
      /\ \A w \in 1..Len(calls[t]) : ~calls[t][w].ok => probabilities[t][w] = NegInf

\* ---------------------------------------------------------------- C5
\* C5: recognize never ends in an exception, and when it returns it returns numTest
\* rows of numModels entries each, in the order of the test sequences, and numTest guesses.
C5_RecognizeNeverFatal ==
  prog = "recognize" =>
    /\ pc # "raised"
    /\ pc = "done" =>
         /\ Len(probabilities) = numTest
         /\ Len(guesses) = numTest
         /\ \A t \in 1..numTest :
              /\ Len(probabilities[t]) = numModels
              /\ \A w \in 1..numModels : probabilities[t][w] = RowEntry(calls[t][w])

\* ---------------------------------------------------------------- C7
\* C7: a row in which no score call succeeded has the guess none.
C7_NoScoreNoGuess ==
  prog = "recognize" =>
    \A t \in 1..Len(guesses) :
      (\A w \in 1..Len(calls[t]) : ~calls[t][w].ok) => guesses[t] = NoWord

\* ---------------------------------------------------------------- C6
\* C6: no strategy's select ends in an exception.
C6_SelectNeverRaises == prog \in Strategies => pc # "raised"

\* ---------------------------------------------------------------- C2
C2_Scored == {i \in 1..Len(hist) : hist[i].fit /\ hist[i].self.ok}
C2_Bic(i) ==
  -2000 * hist[i].self.v
  + (hist[i].n * hist[i].n + 2 * hist[i].n * n_features - 1) * LnTable[SumSeq(lengths)]

\* C2: SelectorBIC.select tries min_n_components..max_n_components in order and holds,
\* after each n, the full-data model of the lowest n that minimizes
\* -2*logL + (n^2 + 2*n*d - 1)*ln(sum(lengths)) over the n whose fit and score both
\* succeeded; it holds no model exactly when there is no such n.
C2_BICSelectsMinimum ==
  prog = "BIC" =>
    /\ pc = "done" => TriedN = WholeRange
    /\ (select_model = NoModel) <=> (C2_Scored = {})
    /\ C2_Scored # {} =>
         \E i \in C2_Scored :
           /\ select_model = FullModel(hist[i].n)
           /\ \A j \in C2_Scored :
                /\ C2_Bic(i) <= C2_Bic(j)
                /\ C2_Bic(i) = C2_Bic(j) => i <= j

C2_Witness ==
  /\ prog = "BIC" /\ pc = "done"
  /\ Cardinality(C2_Scored) >= 2
  /\ select_model.n > min_n_components

\* ---------------------------------------------------------------- C3
C3_Evaluated ==
  {i \in 1..Len(hist) :
     /\ hist[i].fit /\ hist[i].self.ok
     /\ Len(hist[i].others) = numWords - 1
     /\ \A k \in 1..Len(hist[i].others) : hist[i].others[k].ok}
\* (M-1) * DIC(n): (M-1)*logL_self - sum of the other words' log-likelihoods
C3_DicTimesOthers(i) ==
  (numWords - 1) * hist[i].self.v - SumSeq([k \in 1..Len(hist[i].others) |-> hist[i].others[k].v])

\* C3: with at least two words in the vocabulary, SelectorDIC.select tries the whole
\* range in order and holds, after each n, the full-data model of the lowest n that
\* maximizes logL_self - sum(logL_others)/(M-1) over the n whose fit, own score and
\* every other-word score succeeded; it holds no model exactly when there is no such n.
C3_DICSelectsMaximum ==
  prog = "DIC" /\ numWords >= 2 =>
    /\ pc = "done" => TriedN = WholeRange
    /\ (select_model = NoModel) <=> (C3_Evaluated = {})
    /\ C3_Evaluated # {} =>
         \E i \in C3_Evaluated :
           /\ select_model = FullModel(hist[i].n)
           /\ \A j \in C3_Evaluated :
                /\ C3_DicTimesOthers(i) >= C3_DicTimesOthers(j)
                /\ C3_DicTimesOthers(i) = C3_DicTimesOthers(j) => i <= j

C3_Witness ==
  /\ prog = "DIC" /\ pc = "done" /\ numWords >= 2
  /\ Cardinality(C3_Evaluated) >= 1
  /\ \E i \in 1..Len(hist) :
       /\ hist[i].self.ok /\ i \notin C3_Evaluated
       /\ \E j \in C3_Evaluated : j > i /\ select_model.n = hist[j].n

\* ---------------------------------------------------------------- C4
C4_FoldScored(e) == \E f \in 1..Len(e.folds) : e.folds[f].fit /\ e.folds[f].score.ok
\* a candidate that fits and scores (Constant only fits)
C4_FitsAndScores(e) ==
  \/ prog = "Constant" /\ e.fit
  \/ e.fit /\ e.self.ok
  \/ C4_FoldScored(e)

\* C4 as stated: when a candidate fits and scores, select returns a model whose state
\* count lies in min_n_components..max_n_components, whatever the strategy.
C4_AnyStrategyInRange ==
  prog \in Strategies /\ pc = "done" =>
    ((\E i \in 1..Len(hist) : C4_FitsAndScores(hist[i])) =>
       /\ select_model # NoModel
       /\ select_model.n \in min_n_components..max_n_components)

\* C4 as amended: the range holds for BIC and CrossValidation, and for DIC when some
\* candidate also scores on every other word of a vocabulary of two or more words;
\* Constant returns the model of n_constant when its fit succeeds.
C4_ResultWhenCandidateSucceeds ==
  pc = "done" =>
    /\ prog = "Constant" /\ hist[1].fit =>
         select_model # NoModel /\ select_model.n = n_constant
    /\ prog \in {"BIC", "CV"} /\ (\E i \in 1..Len(hist) : C4_FitsAndScores(hist[i])) =>
         select_model # NoModel /\ select_model.n \in min_n_components..max_n_components
    /\ prog = "DIC" /\ numWords >= 2 /\ C3_Evaluated # {} =>
         select_model # NoModel /\ select_model.n \in min_n_components..max_n_components

C4_Witness ==
  /\ pc = "done" /\ prog = "CV" /\ numSeq >= 2
  /\ select_model.n = max_n_components
  /\ \E i \in 1..Len(hist) : ~C4_FitsAndScores(hist[i])

\* ---------------------------------------------------------------- C8
\* the entries of hist whose folds have all been handled
C8_Finished == {i \in 1..Len(hist) : i < Len(hist) \/ pc \in {"cv_end", "loop", "done"}}
C8_FoldCount == IF numSeq < 3 THEN numSeq ELSE 3

\* C8: with one sequence no split is made and the single fit-and-score on the full
\* observations yields the one sample; with k >= 2 sequences every n gets min(3, k)
\* folds, each sequence is held out in exactly one of them, and in each fold the
\* training and held-out indices are disjoint and cover 1..k.
C8_FoldStructure ==
  prog = "CV" =>
    /\ numSeq = 1 =>
         /\ \A i \in 1..Len(hist) : hist[i].folds = <<>>
         /\ Len(logsL) <= 1
         /\ pc = "cv_end" =>
              /\ logsL = <<hist[Len(hist)].self.v>>
              /\ model = FullModel(n_components)
    /\ numSeq >= 2 =>
         \A i \in 1..Len(hist) :
           /\ \A f \in 1..Len(hist[i].folds) :
                /\ hist[i].folds[f].test \cap hist[i].folds[f].train = {}
                /\ hist[i].folds[f].test \cup hist[i].folds[f].train = 1..numSeq
           /\ i \in C8_Finished =>
                /\ Len(hist[i].folds) = C8_FoldCount
                /\ \A q \in 1..numSeq :
                     Cardinality({f \in 1..Len(hist[i].folds) : q \in hist[i].folds[f].test}) = 1

C8_Witness ==
  /\ prog = "CV" /\ pc = "cv_end" /\ numSeq > MaxSplits
  /\ Len(hist[Len(hist)].folds) = MaxSplits
  /\ Cardinality(hist[Len(hist)].folds[1].test) > Cardinality(hist[Len(hist)].folds[MaxSplits].test)

\* ---------------------------------------------------------------- C9
RECURSIVE C9_FoldSamples(_)
C9_FoldSamples(fs) ==
  IF fs = <<>> THEN <<>>
  ELSE (IF Head(fs).fit /\ Head(fs).score.ok THEN <<Head(fs).score.v>> ELSE <<>>)
       \o C9_FoldSamples(Tail(fs))
\* the held-out log-likelihoods n collected
C9_Samples(i) ==
  IF numSeq = 1
    THEN (IF hist[i].fit /\ hist[i].self.ok THEN <<hist[i].self.v>> ELSE <<>>)
    ELSE C9_FoldSamples(hist[i].folds)
C9_WithSamples == {i \in 1..Len(hist) : C9_Samples(i) # <<>>}
\* average(i) >= average(j), and average(i) = average(j)
C9_AvgGE(i, j) ==
  SumSeq(C9_Samples(i)) * Len(C9_Samples(j)) >= SumSeq(C9_Samples(j)) * Len(C9_Samples(i))
C9_AvgEQ(i, j) ==
  SumSeq(C9_Samples(i)) * Len(C9_Samples(j)) = SumSeq(C9_Samples(j)) * Len(C9_Samples(i))

\* C9: between two n (and on return) SelectorCV.select holds a model of the lowest n
\* that maximizes the average of the samples of its successful folds, over the n
\* that have a sample; it holds no model exactly when no n has one; on return it
\* has tried the whole range in order.
C9_CVSelectsBestAverage ==
  prog = "CV" /\ pc \in {"loop", "done"} =>
    /\ pc = "done" => TriedN = WholeRange
    /\ (select_model = NoModel) <=> (C9_WithSamples = {})
    /\ C9_WithSamples # {} =>
         \E i \in C9_WithSamples :
           /\ select_model.n = hist[i].n
           /\ \A j \in C9_WithSamples :
                /\ C9_AvgGE(i, j)
                /\ C9_AvgEQ(i, j) => i <= j

C9_Witness ==
  /\ prog = "CV" /\ pc = "done" /\ numSeq >= 2
  /\ Cardinality(C9_WithSamples) >= 2
  /\ select_model.n > min_n_components
  /\ \E i \in C9_WithSamples :
       /\ hist[i].n = select_model.n
       /\ Len(C9_Samples(i)) < Len(hist[i].folds)

\* --------------------------------------------------------------- C10
C10_Winner == CHOOSE i \in 1..Len(hist) : hist[i].n = select_model.n

\* C10 as stated: the model returned is the one of the last fold of the winning n's
\* iteration, fitted on that fold's training sequences and never on the full set.
C10_ModelOfLastFold ==
  prog = "CV" /\ pc = "done" /\ select_model # NoModel =>
    /\ \E i \in 1..Len(hist) : hist[i].n = select_model.n
    /\ hist[C10_Winner].folds # <<>>
    /\ select_model.fold = Len(hist[C10_Winner].folds)
    /\ select_model.train = hist[C10_Winner].folds[Len(hist[C10_Winner].folds)].train
    /\ select_model.train # 1..numSeq

C10_Fitted(i) == {f \in 1..Len(hist[i].folds) : hist[i].folds[f].fit}
C10_LastFitted(i) == CHOOSE f \in C10_Fitted(i) : \A g \in C10_Fitted(i) : g <= f

\* C10 as amended: with two or more sequences the model returned is the one of the
\* last fold of the winning n's iteration whose fit succeeded (scored or not), fitted
\* with n states on that fold's training sequences, a proper part of the word's
\* sequences; with one sequence it is the model base_model fitted on that sequence.
C10_ModelOfLastFittedFold ==
  prog = "CV" /\ pc = "done" /\ select_model # NoModel =>
    /\ \E i \in 1..Len(hist) : hist[i].n = select_model.n
    /\ numSeq = 1 => select_model = FullModel(select_model.n)
    /\ numSeq >= 2 =>
         /\ C10_Fitted(C10_Winner) # {}
         /\ select_model.fold = C10_LastFitted(C10_Winner)
         /\ select_model.train = hist[C10_Winner].folds[select_model.fold].train
         /\ select_model.train # 1..numSeq

C10_Witness ==
  /\ prog = "CV" /\ pc = "done" /\ numSeq >= 2 /\ select_model # NoModel
  /\ select_model.fold < Len(hist[C10_Winner].folds)
  /\ ~hist[C10_Winner].folds[select_model.fold].score.ok

====
